---- MODULE Spec2Model ----
(***************************************************************************)
(* Model of polars_sqlserver_ext/_bulk_insert.py: polars_bulk_insert (the  *)
(* load orchestrator and the prefetching scheduler loop), _prepare_batch   *)
(* (the batch builder run in the ThreadPoolExecutor) and _prepare_value    *)
(* (the value converter).                                                  *)
(*                                                                         *)
(* The main thread is followed by pc; every build task is a record that a  *)
(* pool worker advances one cursor pull at a time, so that all             *)
(* interleavings of the tasks with each other and with the main thread are *)
(* explored.  One next(rows_iter) is one atomic step.                      *)
(***************************************************************************)
EXTENDS Integers, Sequences, FiniteSets, TLC

\* ---------------------------------------------------------------- bounds
MaxRows == 3        \* rows of a source loaded with the default arguments
MaxProbeRows == 1   \* rows of a source loaded under every argument combination
MaxBatch == 2       \* batch_size

\* ------------------------------------------------------ program constants
num_workers == 4
prefetch_batches == 2

Policies == {"append", "replace", "fail", "delete", "truncate"}
\* one string outside the accepted set stands for every bad policy string
PolicyInputs == Policies \cup {"upsert"}

\* ------------------------------------------------------------ value model
\* A Python value is [k |-> kind, v |-> integer payload]:
\*   none: None            bool: v in {0,1}      int: v
\*   str: v = its length   decimal: v = the number (exact)
\*   datetime: v = microseconds since the epoch     list: v = its length
None == [k |-> "none", v |-> 0]
PyBool(b) == [k |-> "bool", v |-> IF b THEN 1 ELSE 0]
PyInt(n) == [k |-> "int", v |-> n]
PyStr(n) == [k |-> "str", v |-> n]
PyDecimal(n) == [k |-> "decimal", v |-> n]
PyDatetime(us) == [k |-> "datetime", v |-> us]
PyList(n) == [k |-> "list", v |-> n]

\* Python truthiness (the test of `1 if value else 0`): None, False, 0, the
\* empty string and Decimal(0) are falsy; a datetime is always truthy.
Truthy(value) ==
    CASE value.k = "none" -> FALSE
      [] value.k = "datetime" -> TRUE
      [] OTHER -> value.v # 0

\* The source has one column.  Its polars dtype fixes the values a cell
\* takes; every column may hold nulls.
Dtypes == {"Boolean", "Int64", "Utf8", "List"}
DtypeValues(dtype) ==
    CASE dtype = "Boolean" -> {None, PyBool(TRUE), PyBool(FALSE)}
      [] dtype = "Int64" -> {None, PyInt(0), PyInt(2000000000)}
      [] dtype = "Utf8" -> {None, PyStr(0), PyStr(2)}
      [] dtype = "List" -> {None, PyList(0), PyList(1)}

\* col_info.type.name of the destination column; NoColInfo is the None that
\* sql_columns.get() returns when the lower-cased name is not a key
NoColInfo == "<no descriptor>"
TypeNames == {"bit", "decimaln", "datetime2", "intn"}
ColInfos == TypeNames \cup {NoColInfo}

Ok(value) == [ok |-> TRUE, val |-> value, exc |-> ""]
Raise(e) == [ok |-> FALSE, val |-> None, exc |-> e]

\* Decimal(str(value)) for a value that is not a Decimal
DecimalOfStr(value) ==
    CASE value.k = "int" -> Ok(PyDecimal(value.v))
      [] OTHER -> Raise("InvalidOperation")   \* "True", "ab", a timestamp text

\* datetime.utcfromtimestamp(value / 1_000_000_000) for a non-datetime value
UtcFromNanos(value) ==
    CASE value.k \in {"int", "bool"} -> Ok(PyDatetime(value.v \div 1000))
      [] OTHER -> Raise("TypeError")

\* _prepare_value dereferencing col_info.type before the test for None
_prepare_value_DescriptorFirst(value, col_info) ==
    IF col_info = NoColInfo THEN Raise("AttributeError")
    ELSE IF col_info = "bit" THEN Ok(PyInt(IF Truthy(value) THEN 1 ELSE 0))
    ELSE IF value.k = "none" THEN Ok(None)
    ELSE IF col_info \in {"decimaln", "numericn"}
         THEN IF value.k = "decimal" THEN Ok(value) ELSE DecimalOfStr(value)
    ELSE IF col_info \in {"datetime", "datetime2", "smalldatetime", "date", "time"}
         THEN IF value.k = "datetime" THEN Ok(value) ELSE UtcFromNanos(value)
    ELSE Ok(value)

\* _prepare_value without the branch for bit: the cell goes through as it is
_prepare_value_BitPassThrough(value, col_info) ==
    IF value.k = "none" THEN Ok(None)
    ELSE IF col_info = NoColInfo THEN Raise("AttributeError")
    ELSE IF col_info \in {"decimaln", "numericn"}
         THEN IF value.k = "decimal" THEN Ok(value) ELSE DecimalOfStr(value)
    ELSE IF col_info \in {"datetime", "datetime2", "smalldatetime", "date", "time"}
         THEN IF value.k = "datetime" THEN Ok(value) ELSE UtcFromNanos(value)
    ELSE Ok(value)

_prepare_value(value, col_info) ==
    IF value.k = "none" THEN Ok(None)
    ELSE IF col_info = NoColInfo THEN Raise("AttributeError")
    ELSE IF col_info = "bit" THEN Ok(PyInt(IF Truthy(value) THEN 1 ELSE 0))
    ELSE IF col_info \in {"decimaln", "numericn"}
         THEN IF value.k = "decimal" THEN Ok(value) ELSE DecimalOfStr(value)
    ELSE IF col_info \in {"datetime", "datetime2", "smalldatetime", "date", "time"}
         THEN IF value.k = "datetime" THEN Ok(value) ELSE UtcFromNanos(value)
    ELSE Ok(value)

\* ------------------------------------------------------------------ state
VARIABLES
    df,              \* the source: [dtype, rows], rows[i] the cell value of row i
    batch_size,
    if_table_exists,
    reset_identity,
    is_connection,   \* connection_or_cursor is a pytds.Connection
    table_present,   \* destination: the table exists
    pc,              \* position of the main thread in polars_bulk_insert
    raised,          \* exception that left polars_bulk_insert, "" if none
    executed,        \* destination calls so far: cursor(), statements, commits
    table_exists,    \* local: result of the OBJECT_ID query
    sql_columns,     \* local: col_info of the source column
    rows_pos,        \* rows_iter: number of rows already yielded
    futures,         \* local list of submitted, not yet popped tasks
    done_future,     \* local: the popped task
    batch,           \* local: result of the popped task
    prefetched,      \* counter of the prefetch for-loop
    copy_batches,    \* batches received by cursor.copy_to, in order
    in_copy_to,      \* threads currently inside cursor.copy_to
    pool_shutdown    \* executor.shutdown(wait=True) has returned

vars == <<df, batch_size, if_table_exists, reset_identity, is_connection,
          table_present, pc, raised, executed, table_exists, sql_columns,
          rows_pos, futures, done_future, batch, prefetched, copy_batches,
          in_copy_to, pool_shutdown>>

params == <<df, batch_size, if_table_exists, reset_identity, is_connection>>

RECURSIVE SeqsUpTo(_, _)
SeqsUpTo(S, n) ==
    IF n = 0 THEN {<<>>}
    ELSE LET shorter == SeqsUpTo(S, n - 1)
         IN shorter \cup {Append(s, x) : s \in {t \in shorter : Len(t) = n - 1}, x \in S}

\* A build task (a Future and the _prepare_batch call behind it):
\*   st       none | queued | running | done | failed
\*   rows     the local list batch; a row is [idx, val]: the position of the
\*            source row and the converted cell
\*   stopped  next(rows_iter) has raised StopIteration
\*   exc, at  the exception that ended the task and the source row it is about
NoTask == [st |-> "none", rows |-> <<>>, stopped |-> FALSE, exc |-> "", at |-> 0]
NewTask == [st |-> "queued", rows |-> <<>>, stopped |-> FALSE, exc |-> "", at |-> 0]

\* Boolean sources of up to MaxRows rows, and sources of every dtype of up
\* to MaxProbeRows rows
Sources ==
    {[dtype |-> "Boolean", rows |-> r] : r \in SeqsUpTo(DtypeValues("Boolean"), MaxRows)}
    \cup UNION {{[dtype |-> d, rows |-> r] : r \in SeqsUpTo(DtypeValues(d), MaxProbeRows)}
               : d \in Dtypes}

\* the call write_sqlserver(...) with its defaults: append through a
\* connection, into a table that exists
DefaultArguments ==
    /\ if_table_exists = "append"
    /\ ~reset_identity
    /\ is_connection
    /\ table_present

Init ==
    /\ df \in Sources
    /\ batch_size \in 1..MaxBatch
    /\ if_table_exists \in PolicyInputs
    /\ reset_identity \in BOOLEAN
    /\ is_connection \in BOOLEAN
    /\ table_present \in BOOLEAN
    /\ Len(df.rows) <= MaxProbeRows \/ DefaultArguments
    /\ pc = "validate"
    /\ raised = ""
    /\ executed = <<>>
    /\ table_exists = FALSE
    /\ sql_columns = NoColInfo
    /\ rows_pos = 0
    /\ futures = <<>>
    /\ done_future = NoTask
    /\ batch = <<>>
    /\ prefetched = 0
    /\ copy_batches = <<>>
    /\ in_copy_to = {}
    /\ pool_shutdown = FALSE

\* ------------------------------------------------------ load orchestrator
\* Validate without the check of reset_identity (lines 33-36)
Validate_NoResetCheck ==
    /\ pc = "validate"
    /\ IF df.rows = <<>> \/ if_table_exists \notin Policies
       THEN pc' = "raised" /\ raised' = "ValueError"
       ELSE pc' = "get_cursor" /\ UNCHANGED raised
    /\ UNCHANGED <<params, table_present, executed, table_exists, sql_columns,
                   rows_pos, futures, done_future, batch, prefetched,
                   copy_batches, in_copy_to, pool_shutdown>>

\* lines 24-36: the three configuration checks, in the order of the code
Validate ==
    /\ pc = "validate"
    /\ IF df.rows = <<>> \/ if_table_exists \notin Policies
          \/ (reset_identity /\ if_table_exists \notin {"delete", "truncate"})
       THEN pc' = "raised" /\ raised' = "ValueError"
       ELSE pc' = "get_cursor" /\ UNCHANGED raised
    /\ UNCHANGED <<params, table_present, executed, table_exists, sql_columns,
                   rows_pos, futures, done_future, batch, prefetched,
                   copy_batches, in_copy_to, pool_shutdown>>

\* lines 39-42
GetCursor ==
    /\ pc = "get_cursor"
    /\ executed' = IF is_connection THEN Append(executed, "cursor()") ELSE executed
    /\ pc' = "check_exists"
    /\ UNCHANGED <<params, table_present, raised, table_exists, sql_columns,
                   rows_pos, futures, done_future, batch, prefetched,
                   copy_batches, in_copy_to, pool_shutdown>>

\* CheckExists without the raise of lines 50-51
CheckExists_NoFailCheck ==
    /\ pc = "check_exists"
    /\ executed' = Append(executed, "SELECT OBJECT_ID")
    /\ table_exists' = table_present
    /\ pc' = "preload"
    /\ UNCHANGED <<params, table_present, raised, sql_columns, rows_pos, futures,
                   done_future, batch, prefetched, copy_batches, in_copy_to,
                   pool_shutdown>>

\* lines 47-51: the OBJECT_ID query, and the raise of the "fail" policy
CheckExists ==
    /\ pc = "check_exists"
    /\ executed' = Append(executed, "SELECT OBJECT_ID")
    /\ table_exists' = table_present
    /\ IF if_table_exists = "fail" /\ table_present
       THEN pc' = "raised" /\ raised' = "RuntimeError"
       ELSE pc' = "preload" /\ UNCHANGED raised
    /\ UNCHANGED <<params, table_present, sql_columns, rows_pos, futures,
                   done_future, batch, prefetched, copy_batches, in_copy_to,
                   pool_shutdown>>

\* lines 172-235: the SQL type of a dtype; the dtypes of the model only
map_polars_dtype_to_sql(dtype) ==
    CASE dtype = "Int64" -> [ok |-> TRUE, sql |-> "BIGINT"]
      [] dtype = "Boolean" -> [ok |-> TRUE, sql |-> "BIT"]
      [] dtype = "Utf8" -> [ok |-> TRUE, sql |-> "NVARCHAR"]
      [] OTHER -> [ok |-> FALSE, sql |-> "ValueError"]

\* lines 155-169: the destination calls of _create_table_from_polars: none
\* when the type mapping raises
CreateTableCalls(dtype) ==
    IF map_polars_dtype_to_sql(dtype).ok THEN <<"CREATE TABLE">> ELSE <<>>

\* the chain without the commit after the reseed (lines 68 and 75)
PreLoadCalls_ReseedUncommitted(policy, exists, reset, dtype) ==
    IF policy = "replace" /\ exists
    THEN <<"DROP TABLE", "commit">> \o CreateTableCalls(dtype)
         \o (IF map_polars_dtype_to_sql(dtype).ok THEN <<"commit">> ELSE <<>>)
    ELSE IF policy = "replace" /\ ~exists
    THEN CreateTableCalls(dtype)
         \o (IF map_polars_dtype_to_sql(dtype).ok THEN <<"commit">> ELSE <<>>)
    ELSE IF policy = "delete" /\ exists
    THEN <<"DELETE FROM", "commit">>
         \o (IF reset THEN <<"DBCC CHECKIDENT">> ELSE <<>>)
    ELSE IF policy = "truncate" /\ exists
    THEN <<"TRUNCATE TABLE", "commit">>
         \o (IF reset THEN <<"DBCC CHECKIDENT">> ELSE <<>>)
    ELSE <<>>

\* the chain without the commit after DROP TABLE (line 55)
PreLoadCalls_DropUncommitted(policy, exists, reset, dtype) ==
    IF policy = "replace" /\ exists
    THEN <<"DROP TABLE">> \o CreateTableCalls(dtype)
         \o (IF map_polars_dtype_to_sql(dtype).ok THEN <<"commit">> ELSE <<>>)
    ELSE IF policy = "replace" /\ ~exists
    THEN CreateTableCalls(dtype)
         \o (IF map_polars_dtype_to_sql(dtype).ok THEN <<"commit">> ELSE <<>>)
    ELSE IF policy = "delete" /\ exists
    THEN <<"DELETE FROM", "commit">>
         \o (IF reset THEN <<"DBCC CHECKIDENT", "commit">> ELSE <<>>)
    ELSE IF policy = "truncate" /\ exists
    THEN <<"TRUNCATE TABLE", "commit">>
         \o (IF reset THEN <<"DBCC CHECKIDENT", "commit">> ELSE <<>>)
    ELSE <<>>

\* the chain creating the table whenever it is missing, whatever the policy
PreLoadCalls_CreatesWhenMissing(policy, exists, reset, dtype) ==
    IF policy = "replace" /\ exists
    THEN <<"DROP TABLE", "commit">> \o CreateTableCalls(dtype)
         \o (IF map_polars_dtype_to_sql(dtype).ok THEN <<"commit">> ELSE <<>>)
    ELSE IF ~exists
    THEN CreateTableCalls(dtype)
         \o (IF map_polars_dtype_to_sql(dtype).ok THEN <<"commit">> ELSE <<>>)
    ELSE IF policy = "delete" /\ exists
    THEN <<"DELETE FROM", "commit">>
         \o (IF reset THEN <<"DBCC CHECKIDENT", "commit">> ELSE <<>>)
    ELSE IF policy = "truncate" /\ exists
    THEN <<"TRUNCATE TABLE", "commit">>
         \o (IF reset THEN <<"DBCC CHECKIDENT", "commit">> ELSE <<>>)
    ELSE <<>>

\* lines 53-75: the destination calls of the if/elif chain, in order; an
\* unsupported dtype ends the chain inside _create_table_from_polars
PreLoadCalls(policy, exists, reset, dtype) ==
    IF policy = "replace" /\ exists
    THEN <<"DROP TABLE", "commit">> \o CreateTableCalls(dtype)
         \o (IF map_polars_dtype_to_sql(dtype).ok THEN <<"commit">> ELSE <<>>)
    ELSE IF policy = "replace" /\ ~exists
    THEN CreateTableCalls(dtype)
         \o (IF map_polars_dtype_to_sql(dtype).ok THEN <<"commit">> ELSE <<>>)
    ELSE IF policy = "delete" /\ exists
    THEN <<"DELETE FROM", "commit">>
         \o (IF reset THEN <<"DBCC CHECKIDENT", "commit">> ELSE <<>>)
    ELSE IF policy = "truncate" /\ exists
    THEN <<"TRUNCATE TABLE", "commit">>
         \o (IF reset THEN <<"DBCC CHECKIDENT", "commit">> ELSE <<>>)
    ELSE <<>>

\* the destination's table after it has executed the calls
RECURSIVE TableAfter(_, _)
TableAfter(present, calls) ==
    IF calls = <<>> THEN present
    ELSE TableAfter(CASE Head(calls) = "DROP TABLE" -> FALSE
                      [] Head(calls) = "CREATE TABLE" -> TRUE
                      [] OTHER -> present,
                    Tail(calls))

PreLoad ==
    /\ pc = "preload"
    /\ LET calls == PreLoadCalls(if_table_exists, table_exists, reset_identity, df.dtype)
       IN /\ executed' = executed \o calls
          /\ table_present' = TableAfter(table_present, calls)
    /\ IF if_table_exists = "replace" /\ ~map_polars_dtype_to_sql(df.dtype).ok
       THEN pc' = "raised" /\ raised' = "ValueError"
       ELSE pc' = "fetch_meta" /\ UNCHANGED raised
    /\ UNCHANGED <<params, table_exists, sql_columns, rows_pos, futures,
                   done_future, batch, prefetched, copy_batches, in_copy_to,
                   pool_shutdown>>

\* lines 78-85: SELECT TOP 0, the descriptor map, rows_iter and the executor
FetchMetadata ==
    /\ pc = "fetch_meta"
    /\ executed' = Append(executed, "SELECT TOP 0")
    /\ \E ci \in ColInfos : sql_columns' = ci
    /\ pc' = "prefetch"
    /\ UNCHANGED <<params, table_present, raised, table_exists, rows_pos,
                   futures, done_future, batch, prefetched, copy_batches,
                   in_copy_to, pool_shutdown>>

\* -------------------------------------------------------------- scheduler
\* lines 89-91: one iteration of the prefetch loop
Prefetch ==
    /\ pc = "prefetch"
    /\ IF prefetched < prefetch_batches
       THEN /\ futures' = Append(futures, NewTask)
            /\ prefetched' = prefetched + 1
            /\ UNCHANGED pc
       ELSE /\ pc' = "loop"
            /\ UNCHANGED <<futures, prefetched>>
    /\ UNCHANGED <<params, table_present, raised, executed, table_exists,
                   sql_columns, rows_pos, done_future, batch, copy_batches,
                   in_copy_to, pool_shutdown>>

Finished(t) == t.st \in {"done", "failed"}

\* lines 93-94 and 111: the while test; pop(0), or shutdown(wait=True) and return
WhileFutures ==
    /\ pc = "loop"
    /\ IF futures # <<>>
       THEN /\ done_future' = Head(futures)
            /\ futures' = Tail(futures)
            /\ pc' = "result"
            /\ UNCHANGED pool_shutdown
       ELSE /\ Finished(done_future) \/ done_future = NoTask
            /\ pool_shutdown' = TRUE
            /\ pc' = "returned"
            /\ UNCHANGED <<futures, done_future>>
    /\ UNCHANGED <<params, table_present, raised, executed, table_exists,
                   sql_columns, rows_pos, batch, prefetched, copy_batches,
                   in_copy_to>>

\* Result without the test `if batch` of line 97
Result_NoEmptyTest ==
    /\ pc = "result"
    /\ done_future.st \in {"done", "failed"}
    /\ IF done_future.st = "failed"
       THEN /\ pc' = "raised"
            /\ raised' = done_future.exc
            /\ UNCHANGED batch
       ELSE /\ batch' = done_future.rows
            /\ pc' = "copy"
            /\ UNCHANGED raised
    /\ UNCHANGED <<params, table_present, executed, table_exists, sql_columns,
                   rows_pos, futures, done_future, prefetched, copy_batches,
                   in_copy_to, pool_shutdown>>

\* line 95 and the test of line 97: result() blocks until the task has
\* finished and re-raises the task's exception
Result ==
    /\ pc = "result"
    /\ Finished(done_future)
    /\ IF done_future.st = "failed"
       THEN /\ pc' = "raised"
            /\ raised' = done_future.exc
            /\ UNCHANGED batch
       ELSE /\ batch' = done_future.rows
            /\ pc' = IF done_future.rows # <<>> THEN "copy" ELSE "submit"
            /\ UNCHANGED raised
    /\ UNCHANGED <<params, table_present, executed, table_exists, sql_columns,
                   rows_pos, futures, done_future, prefetched, copy_batches,
                   in_copy_to, pool_shutdown>>

\* CopyToCall with the replacement task submitted before the copy
CopyToCall_SubmitsFirst ==
    /\ pc = "copy"
    /\ futures' = Append(futures, [st |-> "queued", rows |-> <<>>, stopped |-> FALSE,
                                    exc |-> "", at |-> 0])
    /\ in_copy_to' = in_copy_to \cup {"main"}
    /\ pc' = "in_copy"
    /\ UNCHANGED <<params, table_present, raised, executed, table_exists,
                   sql_columns, rows_pos, done_future, batch,
                   prefetched, copy_batches, pool_shutdown>>

\* line 98: the main thread enters cursor.copy_to
CopyToCall ==
    /\ pc = "copy"
    /\ in_copy_to' = in_copy_to \cup {"main"}
    /\ pc' = "in_copy"
    /\ UNCHANGED <<params, table_present, raised, executed, table_exists,
                   sql_columns, rows_pos, futures, done_future, batch,
                   prefetched, copy_batches, pool_shutdown>>

\* cursor.copy_to returns, the destination having taken the batch
CopyToReturn ==
    /\ pc = "in_copy"
    /\ copy_batches' = Append(copy_batches, batch)
    /\ in_copy_to' = in_copy_to \ {"main"}
    /\ pc' = "submit"
    /\ UNCHANGED <<params, table_present, raised, executed, table_exists,
                   sql_columns, rows_pos, futures, done_future, batch,
                   prefetched, pool_shutdown>>

\* cursor.copy_to raises (the destination rejects the batch)
CopyToRaise ==
    /\ pc = "in_copy"
    /\ in_copy_to' = in_copy_to \ {"main"}
    /\ pc' = "raised"
    /\ raised' = "BulkTransferError"
    /\ UNCHANGED <<params, table_present, executed, table_exists, sql_columns,
                   rows_pos, futures, done_future, batch, prefetched,
                   copy_batches, pool_shutdown>>

\* Resubmit fetching the column metadata again for the new task
Resubmit_RefetchesMetadata ==
    /\ pc = "submit"
    /\ futures' = Append(futures, [st |-> "queued", rows |-> <<>>, stopped |-> FALSE,
                                    exc |-> "", at |-> 0])
    /\ executed' = Append(executed, "SELECT TOP 0")
    /\ pc' = "loop"
    /\ UNCHANGED <<params, table_present, raised, table_exists,
                   sql_columns, rows_pos, done_future, batch, prefetched,
                   copy_batches, in_copy_to, pool_shutdown>>

\* lines 105-109: executor.submit never raises StopIteration, so the
\* replacement task is always submitted and appended
Resubmit ==
    /\ pc = "submit"
    /\ futures' = Append(futures, NewTask)
    /\ pc' = "loop"
    /\ UNCHANGED <<params, table_present, raised, executed, table_exists,
                   sql_columns, rows_pos, done_future, batch, prefetched,
                   copy_batches, in_copy_to, pool_shutdown>>

\* ------------------------------------------------------------ worker pool
\* The tasks the pool knows: index 0 is the popped done_future, index i > 0
\* is futures[i].
TaskIds == 0..Len(futures)
Task(i) == IF i = 0 THEN done_future ELSE futures[i]
Running == {i \in TaskIds : Task(i).st = "running"}

SetTask(i, t) ==
    IF i = 0 THEN done_future' = t /\ UNCHANGED futures
    ELSE futures' = [futures EXCEPT ![i] = t] /\ UNCHANGED done_future

\* an idle worker takes a queued task and enters _prepare_batch (line 118)
TaskStart(i) ==
    /\ Task(i).st = "queued"
    /\ Cardinality(Running) < num_workers
    /\ SetTask(i, [Task(i) EXCEPT !.st = "running"])
    /\ UNCHANGED <<params, table_present, pc, raised, executed, table_exists,
                   sql_columns, rows_pos, batch, prefetched, copy_batches,
                   in_copy_to, pool_shutdown>>

\* TaskNext with a pull that is not atomic: the position read is written
\* back only when no other task is running, so two tasks get the same row
TaskNext_LostUpdate(i) ==
    /\ Task(i).st = "running"
    /\ ~Task(i).stopped
    /\ Len(Task(i).rows) < batch_size
    /\ IF rows_pos >= Len(df.rows)
       THEN /\ SetTask(i, [Task(i) EXCEPT !.stopped = TRUE])
            /\ UNCHANGED rows_pos
       ELSE /\ rows_pos' = IF Cardinality(Running) > 1 THEN rows_pos ELSE rows_pos + 1
            /\ LET r == _prepare_value(df.rows[rows_pos + 1], sql_columns)
               IN IF r.ok
                  THEN SetTask(i, [Task(i) EXCEPT
                           !.rows = Append(@, [idx |-> rows_pos + 1, val |-> r.val])])
                  ELSE SetTask(i, [Task(i) EXCEPT !.st = "failed", !.exc = r.exc,
                                                  !.at = rows_pos + 1])
    /\ UNCHANGED <<params, table_present, pc, raised, executed, table_exists,
                   sql_columns, batch, prefetched, copy_batches, in_copy_to,
                   pool_shutdown>>

\* lines 120-129: one iteration of the for loop: next(rows_iter), then the
\* conversion of the row's field and the append; StopIteration leaves the
\* loop, any other exception leaves the task failed
TaskNext(i) ==
    /\ Task(i).st = "running"
    /\ ~Task(i).stopped
    /\ Len(Task(i).rows) < batch_size
    /\ IF rows_pos >= Len(df.rows)
       THEN /\ SetTask(i, [Task(i) EXCEPT !.stopped = TRUE])
            /\ UNCHANGED rows_pos
       ELSE /\ rows_pos' = rows_pos + 1
            /\ LET r == _prepare_value(df.rows[rows_pos + 1], sql_columns)
               IN IF r.ok
                  THEN SetTask(i, [Task(i) EXCEPT
                           !.rows = Append(@, [idx |-> rows_pos + 1, val |-> r.val])])
                  ELSE SetTask(i, [Task(i) EXCEPT !.st = "failed", !.exc = r.exc,
                                                  !.at = rows_pos + 1])
    /\ UNCHANGED <<params, table_present, pc, raised, executed, table_exists,
                   sql_columns, batch, prefetched, copy_batches, in_copy_to,
                   pool_shutdown>>

\* TaskReturn with the worker itself handing its batch to cursor.copy_to
TaskReturn_CopiesBatch(i) ==
    /\ Task(i).st = "running"
    /\ Task(i).stopped \/ Len(Task(i).rows) = batch_size
    /\ SetTask(i, [Task(i) EXCEPT !.st = "done"])
    /\ in_copy_to' = in_copy_to \cup {"worker"}
    /\ UNCHANGED <<params, table_present, pc, raised, executed, table_exists,
                   sql_columns, rows_pos, batch, prefetched, copy_batches,
                   pool_shutdown>>

\* line 130: return batch; the future gets its result
TaskReturn(i) ==
    /\ Task(i).st = "running"
    /\ Task(i).stopped \/ Len(Task(i).rows) = batch_size
    /\ SetTask(i, [Task(i) EXCEPT !.st = "done"])
    /\ UNCHANGED <<params, table_present, pc, raised, executed, table_exists,
                   sql_columns, rows_pos, batch, prefetched, copy_batches,
                   in_copy_to, pool_shutdown>>

Worker == \E i \in TaskIds : TaskStart(i) \/ TaskNext(i) \/ TaskReturn(i)

Next ==
    \/ Validate
    \/ GetCursor
    \/ CheckExists
    \/ PreLoad
    \/ FetchMetadata
    \/ Prefetch
    \/ WhileFutures
    \/ Result
    \/ CopyToCall
    \/ CopyToReturn
    \/ CopyToRaise
    \/ Resubmit
    \/ Worker

Spec == Init /\ [][Next]_vars

\* The main thread runs whenever it is not blocked, and the pool workers run
\* the tasks they hold: the threads are scheduled by the operating system.
MainThread ==
    \/ Validate
    \/ GetCursor
    \/ CheckExists
    \/ PreLoad
    \/ FetchMetadata
    \/ Prefetch
    \/ WhileFutures
    \/ Result
    \/ CopyToCall
    \/ CopyToReturn
    \/ CopyToRaise
    \/ Resubmit

FairSpec == Init /\ [][Next]_vars /\ WF_vars(MainThread) /\ WF_vars(Worker)

\* ------------------------------------------------------------ definitions
RECURSIVE Flatten(_)
Flatten(batches) ==
    IF batches = <<>> THEN <<>> ELSE Head(batches) \o Flatten(Tail(batches))

IsPrefix(s, t) == Len(s) <= Len(t) /\ \A i \in 1..Len(s) : s[i] = t[i]

\* positions of the source rows the sink has received, in the order received
Delivered == [i \in 1..Len(Flatten(copy_batches)) |-> Flatten(copy_batches)[i].idx]
SourceOrder == [i \in 1..Len(df.rows) |-> i]
BatchSizes == [i \in 1..Len(copy_batches) |-> Len(copy_batches[i])]

AllTasks == {Task(i) : i \in TaskIds} \ {NoTask}
Streaming == pc \in {"prefetch", "loop", "result", "copy", "in_copy", "submit"}

\* ---------------------------------------------------------------- claims
\* C1: the concatenation of the batches handed to cursor.copy_to, in the
\* order handed over, is at every point a prefix of the source rows in
\* their original order, and is the whole source when the load has returned.
C1_SinkInSourceOrder ==
    /\ IsPrefix(Delivered, SourceOrder)
    /\ pc = "returned" => Delivered = SourceOrder

\* C2: when no build task and no sink call raises, the scheduler loop
\* eventually ends, the pool is shut down and the load returns.
C2_Terminates ==
    <>(\/ pc = "returned" /\ pool_shutdown
       \/ pc = "raised"
       \/ \E t \in AllTasks : t.st = "failed")

\* C3: the sink receives ceil(n/b) batches, all of size b but the last, of
\* size n - b*(ceil(n/b)-1): at every point the sizes received are a prefix
\* of that list, and they are the whole list when the load has returned.
CeilDiv(n, b) == (n + b - 1) \div b
ExpectedSizes(n, b) ==
    [i \in 1..CeilDiv(n, b) |-> IF i < CeilDiv(n, b) THEN b ELSE n - b * (CeilDiv(n, b) - 1)]
C3_BatchSizes ==
    /\ IsPrefix(BatchSizes, ExpectedSizes(Len(df.rows), batch_size))
    /\ pc = "returned" => BatchSizes = ExpectedSizes(Len(df.rows), batch_size)

\* the calls sent through the cursor (statements and commits)
Statements == SelectSeq(executed, LAMBDA c : c # "cursor()")

IndexOf(seq, x) ==
    IF \E i \in 1..Len(seq) : seq[i] = x
    THEN CHOOSE i \in 1..Len(seq) : seq[i] = x /\ \A j \in 1..(i - 1) : seq[j] # x
    ELSE 0

MetadataFetched == IndexOf(executed, "SELECT TOP 0") # 0

\* the calls made after the existence query and before the metadata fetch
PreLoadSegment ==
    IF IndexOf(executed, "SELECT OBJECT_ID") = 0 THEN <<>>
    ELSE SubSeq(executed, IndexOf(executed, "SELECT OBJECT_ID") + 1,
                IF MetadataFetched THEN IndexOf(executed, "SELECT TOP 0") - 1
                ELSE Len(executed))

NoStreamingYet ==
    /\ AllTasks = {}
    /\ copy_batches = <<>>
    /\ in_copy_to = {}
    /\ rows_pos = 0

BadConfiguration ==
    \/ df.rows = <<>>
    \/ if_table_exists \notin {"append", "replace", "fail", "delete", "truncate"}
    \/ reset_identity /\ if_table_exists \notin {"delete", "truncate"}

\* C4: with an empty source, an unknown policy, or reset_identity without
\* delete/truncate, the load raises ValueError and nothing has touched the
\* destination: no cursor, no statement, no commit, no task, no copy_to.
C4_InvalidConfiguration ==
    BadConfiguration =>
        /\ pc \in {"validate", "raised"}
        /\ pc = "raised" => raised = "ValueError"
        /\ executed = <<>>
        /\ NoStreamingYet

C4_Witness ==
    /\ pc = "raised"
    /\ reset_identity /\ if_table_exists = "append"
    /\ df.rows # <<>> /\ is_connection

\* C5: with policy "fail" and the table present the load raises
\* RuntimeError, and the existence query is the only call the cursor has
\* received: no DDL/DML, no commit, no metadata fetch, no task, no copy_to.
C5_FailOnExistingTable ==
    (if_table_exists = "fail" /\ table_present /\ ~BadConfiguration) =>
        /\ pc \in {"validate", "get_cursor", "check_exists", "raised"}
        /\ pc = "raised" => raised = "RuntimeError" /\ Statements = <<"SELECT OBJECT_ID">>
        /\ pc # "raised" => Statements = <<>>
        /\ NoStreamingYet

C5_Witness ==
    /\ if_table_exists = "fail"
    /\ pc = "raised" /\ raised = "RuntimeError"
    /\ executed = <<"cursor()", "SELECT OBJECT_ID">>

\* C6: with policy truncate (delete), reset_identity and the table present,
\* the calls between the existence query and the metadata fetch are exactly
\* TRUNCATE TABLE (DELETE FROM), commit, DBCC CHECKIDENT, commit, and all
\* four are made before the first task is submitted or batch copied.
RefreshWithReseed ==
    <<IF if_table_exists = "truncate" THEN "TRUNCATE TABLE" ELSE "DELETE FROM",
      "commit", "DBCC CHECKIDENT", "commit">>

C6_RefreshThenReseed ==
    (if_table_exists \in {"truncate", "delete"} /\ reset_identity
     /\ table_present /\ ~BadConfiguration) =>
        /\ pc \in {"validate", "get_cursor", "check_exists", "preload"}
              => PreLoadSegment = <<>> /\ NoStreamingYet
        /\ pc \notin {"validate", "get_cursor", "check_exists", "preload"}
              => PreLoadSegment = RefreshWithReseed
        /\ ~NoStreamingYet => MetadataFetched

C6_Witness ==
    /\ if_table_exists = "truncate" /\ reset_identity /\ table_exists
    /\ PreLoadSegment = <<"TRUNCATE TABLE", "commit", "DBCC CHECKIDENT", "commit">>
    /\ copy_batches # <<>>

\* C7: once the pre-load of policy "replace" is through, its calls are
\* exactly DROP TABLE, commit, CREATE TABLE, commit when the table was
\* present and CREATE TABLE, commit when it was missing; under every policy
\* each DDL/DML statement is directly followed by its own commit.
DdlDml == {"DROP TABLE", "CREATE TABLE", "DELETE FROM", "TRUNCATE TABLE", "DBCC CHECKIDENT"}

C8_SingleSinkCaller ==
    /\ in_copy_to \subseteq {"main"}
    /\ in_copy_to # {} => pc = "in_copy"

C8_Witness ==
    /\ in_copy_to = {"main"}
    /\ \E t \in AllTasks : t.st = "running" /\ t.rows # <<>>

\* every converted row that exists: in a task's batch or already copied
Range(seq) == {seq[i] : i \in 1..Len(seq)}
BuiltRows == UNION {Range(t.rows) : t \in AllTasks} \cup Range(Flatten(copy_batches))

\* C9: a null cell is converted to null whatever the column descriptor,
\* also without a descriptor, and its conversion never raises.
C9_NullStaysNull ==
    /\ \A r \in BuiltRows : df.rows[r.idx] = None => r.val = None
    /\ \A t \in AllTasks : t.st = "failed" => df.rows[t.at] # None

C9_Witness ==
    /\ sql_columns = NoColInfo
    /\ \E r \in Range(Flatten(copy_batches)) : df.rows[r.idx] = None /\ r.val = None

\* C10: for a bit column a non-null cell is converted to the integer 1
\* when it is truthy and to the integer 0 when it is falsy, nothing else.
FalsyCells == {[k |-> "bool", v |-> 0], [k |-> "int", v |-> 0],
               [k |-> "str", v |-> 0], [k |-> "list", v |-> 0]}

C10_BitIsZeroOrOne ==
    sql_columns = "bit" =>
        /\ \A r \in BuiltRows :
               df.rows[r.idx] # None =>
                   r.val = [k |-> "int", v |-> IF df.rows[r.idx] \in FalsyCells THEN 0 ELSE 1]
        /\ \A t \in AllTasks : t.st # "failed"

C10_Witness ==
    /\ sql_columns = "bit"
    /\ \E r \in Range(Flatten(copy_batches)) :
           df.rows[r.idx] = [k |-> "bool", v |-> 1] /\ r.val = [k |-> "int", v |-> 1]
    /\ \E r \in Range(Flatten(copy_batches)) :
           df.rows[r.idx] = [k |-> "bool", v |-> 0] /\ r.val = [k |-> "int", v |-> 0]

\* a task that has made its first cursor pull and has not made its last
Consuming(t) ==
    /\ t.st = "running"
    /\ ~t.stopped
    /\ t.rows # <<>>
    /\ Len(t.rows) < batch_size

\* the rows are consecutive rows of the source, in order
Contiguous(rows) == \A k \in 1..(Len(rows) - 1) : rows[k + 1].idx = rows[k].idx + 1

\* C11: at most one build task is between its first and its last cursor
\* pull at any time, and every batch is a contiguous slice of the source.
C11_OneCursorConsumer ==
    /\ Cardinality({i \in TaskIds : Consuming(Task(i))}) <= 1
    /\ \A t \in AllTasks : Contiguous(t.rows)
    /\ \A k \in 1..Len(copy_batches) : Contiguous(copy_batches[k])

\* the executor exists: the load has got past line 86 and submitted tasks
PoolCreated == prefetched > 0

\* C12: on every exit of a load that created the pool (return, a task's
\* exception out of result(), an exception out of copy_to) the pool has
\* been shut down and every task has finished.
C12_PoolShutDownOnExit ==
    (PoolCreated /\ pc \in {"returned", "raised"}) =>
        /\ pool_shutdown
        /\ \A t \in AllTasks : Finished(t)

\* C13: after popping and handling a batch the scheduler submits a
\* replacement task only if the source is not known to be exhausted: it
\* submits none once the batch it popped was empty.
C13_NoSubmitAfterEmptyBatch ==
    [][(pc = "submit" /\ batch = <<>>) => Len(futures') <= Len(futures)]_vars

\* C14: a field without a column descriptor is passed through unchanged
\* and its conversion does not raise, for null and non-null values alike.
C14_NoDescriptorPassThrough ==
    sql_columns = NoColInfo =>
        /\ \A t \in AllTasks : t.st # "failed"
        /\ \A r \in BuiltRows : r.val = df.rows[r.idx]

\* C15: once a build task or the sink has raised, the scheduler submits no
\* further task and starts no further copy_to call.
ErrorOccurred == raised # "" \/ \E t \in AllTasks : t.st = "failed"

C15_NothingAfterFirstError ==
    [][ErrorOccurred => /\ Len(futures') <= Len(futures)
                        /\ in_copy_to' \subseteq in_copy_to]_vars

\* C16: the tasks submitted and not yet popped never number more than
\* prefetch_batches, and between the pop of a task and the return of the
\* copy_to call for its batch no replacement has been submitted.
C16_BoundedPrefetch ==
    /\ Len(futures) <= prefetch_batches
    /\ pc \in {"result", "copy", "in_copy"} => Len(futures) <= prefetch_batches - 1

C16_Witness ==
    /\ pc = "loop"
    /\ Len(futures) = prefetch_batches
    /\ copy_batches # <<>>
    /\ Len(copy_batches[Len(copy_batches)]) = batch_size

\* C17: every batch handed to cursor.copy_to has at least one row and at
\* most batch_size rows, also once the source is exhausted.
C17_NoEmptyBatchToSink ==
    /\ \A k \in 1..Len(copy_batches) :
           Len(copy_batches[k]) >= 1 /\ Len(copy_batches[k]) <= batch_size
    /\ pc \in {"copy", "in_copy"} => Len(batch) >= 1 /\ Len(batch) <= batch_size

C17_Witness ==
    /\ rows_pos = Len(df.rows)
    /\ pc = "submit" /\ batch = <<>> /\ done_future.stopped
    /\ copy_batches # <<>>

\* C18: the steps come in the order validation, existence query, pre-load
\* statements and commits, metadata fetch, streaming: the fetch is issued
\* once, it is the last call of executed, no task is submitted before it.
Count(seq, x) == Cardinality({i \in 1..Len(seq) : seq[i] = x})

C18_OrchestratorOrder ==
    /\ executed # <<>> => ~BadConfiguration
    /\ Statements # <<>> => Statements[1] = "SELECT OBJECT_ID"
    /\ Count(executed, "SELECT OBJECT_ID") <= 1
    /\ Count(executed, "SELECT TOP 0") <= 1
    /\ MetadataFetched => executed[Len(executed)] = "SELECT TOP 0"
    /\ ~NoStreamingYet \/ PoolCreated => MetadataFetched

C18_Witness ==
    /\ if_table_exists = "delete" /\ reset_identity
    /\ executed = <<"cursor()", "SELECT OBJECT_ID", "DELETE FROM", "commit",
                    "DBCC CHECKIDENT", "commit", "SELECT TOP 0">>
    /\ copy_batches # <<>>
    /\ pc = "loop"

\* C19: no source row is claimed by two build tasks and none is handed to
\* the sink twice.
FuturesRows == Flatten([i \in 1..Len(futures) |-> futures[i].rows])
NoRowTwice(rows) ==
    \A i, j \in 1..Len(rows) : i # j => rows[i].idx # rows[j].idx

C19_NoRowTwice ==
    /\ NoRowTwice(Flatten(copy_batches) \o FuturesRows)
    /\ NoRowTwice(done_future.rows \o FuturesRows)

C19_Witness ==
    /\ Len(df.rows) = 3
    /\ Len(Delivered) = 3
    /\ Delivered # SourceOrder

\* C20: CREATE TABLE is issued under policy replace only; under the other
\* policies with the table missing, and under append with it present,
\* nothing is executed or committed between the existence query and the
\* metadata fetch, and the destination's table is as it was.
C20_OnlyReplaceCreates ==
    /\ Count(executed, "CREATE TABLE") > 0 => if_table_exists = "replace"
    /\ (/\ ~BadConfiguration
        /\ pc \notin {"validate", "get_cursor", "check_exists"}
        /\ if_table_exists # "replace"
        /\ ~table_exists \/ if_table_exists = "append") =>
            /\ PreLoadSegment = <<>>
            /\ table_present = table_exists

C20_Witness ==
    /\ if_table_exists = "truncate" /\ ~table_exists
    /\ MetadataFetched /\ PreLoadSegment = <<>>
    /\ ~table_present
    /\ AllTasks # {}

====
